---- MODULE Spec2Model ----
(***************************************************************************)
(* Kalman statistical-arbitrage engine: the adaptive regression filter     *)
(* (src/src/kalman.py), the signal state machine (src/src/strategy.py) and *)
(* the vectorized performance engine (src/src/backtester.py).              *)
(*                                                                         *)
(* Numbers are IEEE doubles in the program.  They are modelled as exact    *)
(* rationals extended with NaN, +Inf and -Inf: a record [n, d] with d > 0  *)
(* in lowest terms is the rational n/d; d = 0 marks the special values     *)
(* (n = 0: NaN, n = 1: +Inf, n = -1: -Inf).  Rounding is not modelled.     *)
(***************************************************************************)
EXTENDS Integers, Sequences, FiniteSets, TLC

VARIABLES
    pc,               \* position of the running call
    entry_threshold,  \* StrategyAnalyzer.entry_threshold
    exit_threshold,   \* StrategyAnalyzer.exit_threshold
    kf_results,       \* input frame of generate_signals: rows [spread, spread_var]
    z_scores,         \* df['z_score']
    positions,        \* the positions array of generate_signals
    current_pos,      \* loop-carried state of generate_signals
    t,                \* loop index of generate_signals (iterations completed)
    signals,          \* input frame of run: rows [position, beta, x, y]
    cost_bps,         \* VectorizedBacktester.cost_bps
    metrics,          \* the dictionary returned by run
    delta,            \* KalmanFilterReg.delta
    R,                \* KalmanFilterReg.R
    state_mean,       \* KalmanFilterReg.state_mean
    state_cov,        \* KalmanFilterReg.state_cov
    x_series,         \* argument of the running process_data call
    y_series,         \* argument of the running process_data call
    kt,               \* loop index of process_data (iterations completed)
    beta_estimates,   \* output container of process_data
    spread_errors,    \* output container of process_data
    error_vars,       \* output container of process_data
    pass_start,       \* state_mean and state_cov when the running call began
    passes            \* the finished process_data calls of this filter object

kalmanVars == <<delta, R, state_mean, state_cov, x_series, y_series, kt,
                beta_estimates, spread_errors, error_vars, pass_start, passes>>

vars == <<pc, entry_threshold, exit_threshold, kf_results, z_scores, positions,
          current_pos, t, signals, cost_bps, metrics, kalmanVars>>

stratVars == <<entry_threshold, exit_threshold, kf_results, z_scores, positions,
               current_pos, t>>

-----------------------------------------------------------------------------
(* Bounds of the model *)

\* longest frame handed to generate_signals
MaxLen == 3

\* longest frame handed directly to VectorizedBacktester.run
MaxBtLen == 3

\* longest price series handed to process_data
MaxKfLen == 2

\* process_data calls made on one filter object
MaxPasses == 2

-----------------------------------------------------------------------------
(* Extended rational arithmetic (numpy float64 semantics without rounding) *)

NaN == [n |-> 0, d |-> 0]

PosInf == [n |-> 1, d |-> 0]

NegInf == [n |-> -1, d |-> 0]

IAbs(i) == IF i < 0 THEN -i ELSE i

Sgn(i) == IF i < 0 THEN -1 ELSE IF i > 0 THEN 1 ELSE 0

RECURSIVE Gcd(_, _)
Gcd(a, b) == IF b = 0 THEN a ELSE Gcd(b, a % b)

\* the rational n/d (d > 0) in lowest terms
Frac(n, d) ==
    IF d = 1 THEN [n |-> n, d |-> 1]
    ELSE LET g == Gcd(IAbs(n), d) IN [n |-> n \div g, d |-> d \div g]

Num(i) == [n |-> i, d |-> 1]

IsNaN(a) == a.d = 0 /\ a.n = 0

IsInf(a) == a.d = 0 /\ a.n # 0

FNeg(a) == [n |-> -a.n, d |-> a.d]

FAbs(a) == [n |-> IAbs(a.n), d |-> a.d]

FAdd(a, b) ==
    IF IsNaN(a) \/ IsNaN(b) THEN NaN
    ELSE IF IsInf(a) THEN (IF IsInf(b) /\ b.n # a.n THEN NaN ELSE a)
    ELSE IF IsInf(b) THEN b
    ELSE Frac(a.n * b.d + b.n * a.d, a.d * b.d)

FSub(a, b) == FAdd(a, FNeg(b))

FMul(a, b) ==
    IF IsNaN(a) \/ IsNaN(b) THEN NaN
    ELSE IF IsInf(a) \/ IsInf(b)
         THEN (IF a.n = 0 \/ b.n = 0 THEN NaN
               ELSE [n |-> Sgn(a.n) * Sgn(b.n), d |-> 0])
    ELSE Frac(a.n * b.n, a.d * b.d)

\* a zero divisor is +0.0 (the divisors of the program are sums and square
\* roots, which yield -0.0 only from a -0.0 input)
FDiv(a, b) ==
    IF IsNaN(a) \/ IsNaN(b) THEN NaN
    ELSE IF IsInf(b) THEN (IF IsInf(a) THEN NaN ELSE Num(0))
    ELSE IF b.n = 0 THEN (IF a.n = 0 THEN NaN ELSE [n |-> Sgn(a.n), d |-> 0])
    ELSE IF IsInf(a) THEN [n |-> Sgn(a.n) * Sgn(b.n), d |-> 0]
    ELSE Frac(a.n * b.d * Sgn(b.n), a.d * IAbs(b.n))

\* comparisons with NaN are False
FLt(a, b) ==
    /\ ~IsNaN(a)
    /\ ~IsNaN(b)
    /\ IF IsInf(a) \/ IsInf(b)
       THEN a # b /\ (a = NegInf \/ b = PosInf)
       ELSE a.n * b.d < b.n * a.d

FLe(a, b) == ~IsNaN(a) /\ ~IsNaN(b) /\ (a = b \/ FLt(a, b))

FGt(a, b) == FLt(b, a)

FGe(a, b) == FLe(b, a)

\* integer square root of a perfect square
ISqrt(k) == CHOOSE r \in 0..k : r * r = k

\* np.sqrt: NaN for a negative argument; the inputs of the model are
\* squares of rationals, so the root is exact
FSqrt(a) ==
    IF IsNaN(a) \/ a.n < 0 THEN NaN
    ELSE IF IsInf(a) THEN PosInf
    ELSE [n |-> ISqrt(a.n), d |-> ISqrt(a.d)]

-----------------------------------------------------------------------------
(* KalmanFilterReg *)

\* <<delta, R>>: valid settings, and settings with delta < 0 or R <= 0
NoiseSettings ==
    {<<0, 1>>, <<1, 1>>, <<1, 2>>, <<-1, 1>>, <<1, 0>>, <<0, 0>>, <<1, -1>>}

\* sequences over S of length at most k, the empty one included
SeqsFrom0(S, k) == UNION {[1..m -> S] : m \in 0..k}

XValues == {Num(0), Num(1)}

YValues == {Num(1), Num(2)}

\* __init__: the state starts at mean 0, covariance 1
kalman_init(d, r) ==
    /\ delta = Num(d)
    /\ R = Num(r)
    /\ state_mean = Num(0)
    /\ state_cov = Num(1)

\* the filter of a run that does not use one
KalmanUnused ==
    /\ kalman_init(1, 1)
    /\ x_series = <<>>
    /\ y_series = <<>>
    /\ kt = 0
    /\ beta_estimates = <<>>
    /\ spread_errors = <<>>
    /\ error_vars = <<>>
    /\ pass_start = [mean |-> Num(0), cov |-> Num(1)]
    /\ passes = <<>>

\* np.zeros(n)
zeros(len) == [i \in 1..len |-> Num(0)]

\* one iteration of the recursive loop: predict, then update
kalman_step(mean, cov, x, y) ==
    LET pred_state == mean
        pred_cov == FAdd(cov, delta)
        H == x
        y_pred == FMul(H, pred_state)
        error == FSub(y, y_pred)
        S == FAdd(FMul(FMul(H, pred_cov), H), R)
        K == FDiv(FMul(pred_cov, H), S)
    IN [mean |-> FAdd(pred_state, FMul(K, error)),
        cov |-> FMul(pred_cov, FSub(Num(1), FMul(K, H))),
        spread |-> error,
        spread_var |-> S]

\* lines 37-44: n = len(x_series), the output containers are allocated
process_data_begin ==
    /\ pc = "kf_idle"
    /\ Len(passes) < MaxPasses
    /\ x_series' \in SeqsFrom0(XValues, MaxKfLen)
    /\ y_series' \in SeqsFrom0(YValues, MaxKfLen)
    /\ beta_estimates' = zeros(Len(x_series'))
    /\ spread_errors' = zeros(Len(x_series'))
    /\ error_vars' = zeros(Len(x_series'))
    /\ kt' = 0
    /\ pass_start' = [mean |-> state_mean, cov |-> state_cov]
    /\ pc' = "kf_loop"
    /\ UNCHANGED <<delta, R, state_mean, state_cov, passes, stratVars,
                   signals, cost_bps, metrics>>

\* lines 47-79: one iteration of `for t in range(n)`
process_data_step ==
    /\ pc = "kf_loop"
    /\ kt < Len(x_series)
    /\ kt < Len(y_series)
    /\ LET s == kalman_step(state_mean, state_cov,
                            x_series[kt + 1], y_series[kt + 1])
       IN /\ state_mean' = s.mean
          /\ state_cov' = s.cov
          /\ beta_estimates' = [beta_estimates EXCEPT ![kt + 1] = s.mean]
          /\ spread_errors' = [spread_errors EXCEPT ![kt + 1] = s.spread]
          /\ error_vars' = [error_vars EXCEPT ![kt + 1] = s.spread_var]
    /\ kt' = kt + 1
    /\ UNCHANGED <<pc, delta, R, x_series, y_series, pass_start, passes,
                   stratVars, signals, cost_bps, metrics>>

PassRecord(outcome, frame) ==
    [x |-> x_series, y |-> y_series, start |-> pass_start, steps |-> kt,
     end |-> [mean |-> state_mean, cov |-> state_cov],
     outcome |-> outcome, frame |-> frame]

\* line 61: Y[t] with t past the end of Y raises IndexError; the outputs
\* of the steps already run are lost, their state updates are not
process_data_index_error ==
    /\ pc = "kf_loop"
    /\ kt < Len(x_series)
    /\ kt >= Len(y_series)
    /\ passes' = Append(passes, PassRecord("IndexError", <<>>))
    /\ pc' = "kf_idle"
    /\ UNCHANGED <<delta, R, state_mean, state_cov, x_series, y_series, kt,
                   beta_estimates, spread_errors, error_vars, pass_start,
                   stratVars, signals, cost_bps, metrics>>

\* lines 81-85: the loop is over, the DataFrame is returned
process_data_return ==
    /\ pc = "kf_loop"
    /\ kt = Len(x_series)
    /\ passes' = Append(passes,
           PassRecord("returned",
               [i \in 1..Len(x_series) |->
                   [beta |-> beta_estimates[i], spread |-> spread_errors[i],
                    spread_var |-> error_vars[i]]]))
    /\ pc' = "kf_idle"
    /\ UNCHANGED <<delta, R, state_mean, state_cov, x_series, y_series, kt,
                   beta_estimates, spread_errors, error_vars, pass_start,
                   stratVars, signals, cost_bps, metrics>>

-----------------------------------------------------------------------------
(* Input domains *)

\* non-empty sequences over S of length at most k
SeqsUpTo(S, k) == UNION {[1..m -> S] : m \in 1..k}

Row(sp, sv) == [spread |-> Num(sp), spread_var |-> Num(sv)]

\* rows of the frame handed to generate_signals: z = -3, -1, 0, 1, 3 from
\* positive variances, +Inf and -Inf from a zero variance, NaN from a
\* negative one
KfRows ==
    {Row(-3, 1), Row(-2, 4), Row(0, 1), Row(2, 4), Row(3, 1),
     Row(1, 0), Row(-1, 0), Row(1, -1)}

\* <<entry_threshold, exit_threshold>>: the default, a non-zero exit band,
\* bands with exit >= entry, and an entry threshold above every finite z
ThresholdPairs ==
    {<<2, 0>>, <<2, 1>>, <<1, 0>>, <<1, 1>>, <<1, 2>>, <<100, 0>>}

-----------------------------------------------------------------------------
(* StrategyAnalyzer.generate_signals *)

\* df['z_score'] = df['spread'] / np.sqrt(df['spread_var'])
z_score(row) == FDiv(row.spread, FSqrt(row.spread_var))

\* entries stack on the held position instead of requiring Flat
next_pos_stacking(pos, z, entry, exit) ==
    IF FLt(z, FNeg(entry)) THEN pos + 1
    ELSE IF FGt(z, entry) THEN pos - 1
    ELSE IF pos = 1 /\ FGe(z, FNeg(exit)) THEN 0
    ELSE IF pos = -1 /\ FLe(z, exit) THEN 0
    ELSE pos

\* strict comparisons in the exit rules
next_pos_strict_exit(pos, z, entry, exit) ==
    IF pos = 0 THEN
        IF FLt(z, FNeg(entry)) THEN 1
        ELSE IF FGt(z, entry) THEN -1
        ELSE pos
    ELSE IF pos = 1 THEN
        IF FGt(z, FNeg(exit)) THEN 0 ELSE pos
    ELSE IF pos = -1 THEN
        IF FLt(z, exit) THEN 0 ELSE pos
    ELSE pos

\* a held position reverses directly on an opposite entry signal
next_pos_reversing(pos, z, entry, exit) ==
    IF FLt(z, FNeg(entry)) /\ pos # 1 THEN 1
    ELSE IF FGt(z, entry) /\ pos # -1 THEN -1
    ELSE IF pos = 1 /\ FGe(z, FNeg(exit)) THEN 0
    ELSE IF pos = -1 /\ FLe(z, exit) THEN 0
    ELSE pos

\* the exit rule of a Long compares with exit_threshold, not its negative,
\* and the exit rule of a Short with the negative
next_pos_unsigned_exit(pos, z, entry, exit) ==
    IF pos = 0 THEN
        IF FLt(z, FNeg(entry)) THEN 1
        ELSE IF FGt(z, entry) THEN -1
        ELSE pos
    ELSE IF pos = 1 THEN
        IF FGe(z, exit) THEN 0 ELSE pos
    ELSE IF pos = -1 THEN
        IF FLe(z, FNeg(exit)) THEN 0 ELSE pos
    ELSE pos

\* body of the loop: the if / elif chain on current_pos
next_pos(pos, z, entry, exit) ==
    IF pos = 0 THEN
        IF FLt(z, FNeg(entry)) THEN 1
        ELSE IF FGt(z, entry) THEN -1
        ELSE pos
    ELSE IF pos = 1 THEN
        IF FGe(z, FNeg(exit)) THEN 0 ELSE pos
    ELSE IF pos = -1 THEN
        IF FLe(z, exit) THEN 0 ELSE pos
    ELSE pos

\* lines 23-47: the vectorized z-score, then the set-up of the loop
generate_signals_begin ==
    /\ pc = "start"
    /\ z_scores' = [i \in 1..Len(kf_results) |-> z_score(kf_results[i])]
    /\ positions' = [i \in 1..Len(kf_results) |-> 0]
    /\ current_pos' = 0
    /\ t' = 0
    /\ pc' = "loop"
    /\ UNCHANGED <<entry_threshold, exit_threshold, kf_results, signals,
                   cost_bps, metrics, kalmanVars>>

\* lines 49-66: one iteration of `for t in range(len(df))`
generate_signals_step ==
    /\ pc = "loop"
    /\ t < Len(kf_results)
    /\ LET z == z_scores[t + 1]
           p == next_pos(current_pos, z, entry_threshold, exit_threshold)
       IN /\ current_pos' = p
          /\ positions' = [positions EXCEPT ![t + 1] = p]
    /\ t' = t + 1
    /\ UNCHANGED <<pc, entry_threshold, exit_threshold, kf_results, z_scores,
                   signals, cost_bps, metrics, kalmanVars>>

\* lines 68-70: df['position'] = positions; return df
generate_signals_return ==
    /\ pc = "loop"
    /\ t = Len(kf_results)
    /\ pc' = "returned"
    /\ UNCHANGED <<stratVars, signals, cost_bps, metrics, kalmanVars>>

-----------------------------------------------------------------------------
(* pandas Series operations used by VectorizedBacktester (a Series is a
   sequence of numbers; NaN marks a missing value) *)

\* the array of the values of f, each computed once
Arr(f) == SubSeq(f, 1, Len(f))

\* Series.diff(): the first element has no predecessor
diff(s) == Arr([i \in 1..Len(s) |-> IF i = 1 THEN NaN ELSE FSub(s[i], s[i - 1])])

\* a "shift" that does not lag
shift_no_lag(s) == s

\* Series.shift(1)
shift(s) == Arr([i \in 1..Len(s) |-> IF i = 1 THEN NaN ELSE s[i - 1]])

SMul(a, b) == Arr([i \in 1..Len(a) |-> FMul(a[i], b[i])])

SAdd(a, b) == Arr([i \in 1..Len(a) |-> FAdd(a[i], b[i])])

SSub(a, b) == Arr([i \in 1..Len(a) |-> FSub(a[i], b[i])])

SScale(a, c) == Arr([i \in 1..Len(a) |-> FMul(a[i], c)])

\* Series.abs()
SAbs(a) == Arr([i \in 1..Len(a) |-> FAbs(a[i])])

\* Series.fillna(0)
fillna0(a) == Arr([i \in 1..Len(a) |-> IF IsNaN(a[i]) THEN Num(0) ELSE a[i]])

\* number of non-missing values among the first k
RECURSIVE CountValid(_, _)
CountValid(s, k) ==
    IF k = 0 THEN 0
    ELSE CountValid(s, k - 1) + (IF IsNaN(s[k]) THEN 0 ELSE 1)

\* sum of the non-missing values among the first k (skipna=True)
RECURSIVE SumValid(_, _)
SumValid(s, k) ==
    IF k = 0 THEN Num(0)
    ELSE IF IsNaN(s[k]) THEN SumValid(s, k - 1)
    ELSE FAdd(SumValid(s, k - 1), s[k])

\* largest non-missing value among the first k; NaN when there is none
RECURSIVE MaxValid(_, _)
MaxValid(s, k) ==
    IF k = 0 THEN NaN
    ELSE LET m == MaxValid(s, k - 1)
         IN IF IsNaN(s[k]) THEN m
            ELSE IF IsNaN(m) \/ FGt(s[k], m) THEN s[k]
            ELSE m

\* smallest non-missing value among the first k; NaN when there is none
RECURSIVE MinValid(_, _)
MinValid(s, k) ==
    IF k = 0 THEN NaN
    ELSE LET m == MinValid(s, k - 1)
         IN IF IsNaN(s[k]) THEN m
            ELSE IF IsNaN(m) \/ FLt(s[k], m) THEN s[k]
            ELSE m

\* Series.cumsum(): missing values stay missing and are skipped by the sum
cumsum(s) ==
    Arr([i \in 1..Len(s) |-> IF IsNaN(s[i]) THEN NaN ELSE SumValid(s, i)])

\* Series.cummax()
cummax(s) ==
    Arr([i \in 1..Len(s) |-> IF IsNaN(s[i]) THEN NaN ELSE MaxValid(s, i)])

\* Series.min()
smin(s) == MinValid(s, Len(s))

\* Series.mean(): NaN when every value is missing
mean(s) ==
    LET c == CountValid(s, Len(s))
    IN IF c = 0 THEN NaN ELSE FDiv(SumValid(s, Len(s)), Num(c))

\* sum over the non-missing values among the first k of (s[k] - m)^2
RECURSIVE SumSqDev(_, _, _)
SumSqDev(s, m, k) ==
    IF k = 0 THEN Num(0)
    ELSE IF IsNaN(s[k]) THEN SumSqDev(s, m, k - 1)
    ELSE FAdd(SumSqDev(s, m, k - 1), FMul(FSub(s[k], m), FSub(s[k], m)))

\* Series.var(): sample variance (ddof=1), NaN with fewer than two values
variance(s) ==
    LET c == CountValid(s, Len(s))
    IN IF c < 2 THEN NaN
       ELSE FDiv(SumSqDev(s, mean(s), Len(s)), Num(c - 1))

(* A square root is in general irrational: a root value is kept as its sign
   and its square, [sgn, sq]; sq = NaN is NaN. *)
Root(sgn, sq) == [sgn |-> IF IsNaN(sq) THEN 0 ELSE sgn, sq |-> sq]

RootZero == Root(0, Num(0))

\* Series.std() = sqrt(var), ddof=1
std(s) == LET v == variance(s) IN Root(Sgn(v.n), v)

\* trading days per year
TradingDays == 252

\* _calculate_sharpe
calculate_sharpe(daily_pnl_series) ==
    LET sd == std(daily_pnl_series)
        m == mean(daily_pnl_series)
    IN IF sd = RootZero THEN RootZero
       ELSE LET q == FDiv(FMul(m, m), sd.sq)      \* (mean / std)^2
            IN Root(Sgn(m.n) * sd.sgn, FMul(Num(TradingDays), q))

\* _calculate_drawdown
calculate_drawdown(equity_curve) ==
    LET peak == cummax(equity_curve)
        drawdown == SSub(equity_curve, peak)
    IN smin(drawdown)

Col(df, f) == Arr([i \in 1..Len(df) |-> df[i][f]])

\* VectorizedBacktester.run
run(df, bps) ==
    LET Y == Col(df, "y")
        X == Col(df, "x")
        position == Col(df, "position")
        beta == Col(df, "beta")
        dY == diff(Y)
        dX == diff(X)
        strategy_pnl_daily ==
            SMul(shift(position), SSub(dY, SMul(shift(beta), dX)))
        trades == SAbs(diff(position))
        est_trade_value == SAdd(Y, SMul(beta, X))
        costs == SScale(SMul(trades, est_trade_value), bps)
        net_pnl == SSub(strategy_pnl_daily, fillna0(costs))
        cumulative_pnl == cumsum(net_pnl)
    IN [status |-> "ok",
        equity_curve |-> cumulative_pnl,
        total_pnl |-> cumulative_pnl[Len(df)],
        sharpe_ratio |-> calculate_sharpe(net_pnl),
        max_drawdown |-> calculate_drawdown(cumulative_pnl),
        strategy_pnl_daily |-> strategy_pnl_daily,
        trades |-> trades,
        costs |-> costs,
        net_pnl |-> net_pnl]

\* values of transaction_cost_bps
CostValues == {Num(0), Frac(1, 2)}

\* a price that starts at p0 and moves by k per step
PricePath(p0, k, len) == [i \in 1..len |-> Num(p0 + k * (i - 1))]

\* main.py, lines 37-44: the price columns are merged into the frame that
\* generate_signals returned and the backtest runs on it.  generate_signals
\* copies the beta column through unread, so its values are drawn here.
pipeline_run ==
    /\ pc = "returned"
    /\ \E ky \in {-1, 1}, c \in CostValues :
          LET len == Len(positions)
              X == PricePath(10, 1, len)
              Y == PricePath(20, ky, len)
          IN /\ signals' = [i \in 1..len |->
                              [position |-> Num(positions[i]), beta |-> Num(2),
                               x |-> X[i], y |-> Y[i]]]
             /\ cost_bps' = c
             /\ metrics' = run(signals', c)
    /\ pc' = "done"
    /\ UNCHANGED <<stratVars, kalmanVars>>

NoMetrics == [status |-> "none"]

Init ==
    /\ pc = "start"
    /\ \E th \in ThresholdPairs :
          /\ entry_threshold = Num(th[1])
          /\ exit_threshold = Num(th[2])
    /\ kf_results \in SeqsUpTo(KfRows, MaxLen)
    /\ z_scores = <<>>
    /\ positions = <<>>
    /\ current_pos = 0
    /\ t = 0
    /\ signals = <<>>
    /\ cost_bps = Num(0)
    /\ metrics = NoMetrics
    /\ KalmanUnused

Next ==
    \/ generate_signals_begin
    \/ generate_signals_step
    \/ generate_signals_return
    \/ pipeline_run

Spec == Init /\ [][Next]_vars

-----------------------------------------------------------------------------
(* VectorizedBacktester.run on an arbitrary frame *)

\* rows of a frame handed to run: every position, two hedge ratios, two
\* price points (so that dX is -1, 0 or 1 and dY is -3, 0 or 3)
BtRows ==
    {[position |-> Num(p), beta |-> Num(b), x |-> Num(xy[1]), y |-> Num(xy[2])] :
        p \in {-1, 0, 1}, b \in {1, 2}, xy \in {<<1, 1>>, <<2, 4>>}}

InitBacktest ==
    /\ pc = "bt_start"
    /\ signals \in SeqsUpTo(BtRows, MaxBtLen)
    /\ cost_bps \in CostValues
    /\ metrics = NoMetrics
    /\ entry_threshold = Num(2)
    /\ exit_threshold = Num(0)
    /\ kf_results = <<>>
    /\ z_scores = <<>>
    /\ positions = <<>>
    /\ current_pos = 0
    /\ t = 0
    /\ KalmanUnused

\* one call of run(signals, ticker_x, ticker_y)
run_backtest ==
    /\ pc = "bt_start"
    /\ metrics' = run(signals, cost_bps)
    /\ pc' = "bt_done"
    /\ UNCHANGED <<stratVars, signals, cost_bps, kalmanVars>>

NextBacktest == run_backtest

SpecBacktest == InitBacktest /\ [][NextBacktest]_vars

-----------------------------------------------------------------------------
(* One KalmanFilterReg object and the process_data calls made on it *)

InitKalman ==
    /\ pc = "kf_idle"
    /\ \E nz \in NoiseSettings : kalman_init(nz[1], nz[2])
    /\ x_series = <<>>
    /\ y_series = <<>>
    /\ kt = 0
    /\ beta_estimates = <<>>
    /\ spread_errors = <<>>
    /\ error_vars = <<>>
    /\ pass_start = [mean |-> Num(0), cov |-> Num(1)]
    /\ passes = <<>>
    /\ entry_threshold = Num(2)
    /\ exit_threshold = Num(0)
    /\ kf_results = <<>>
    /\ z_scores = <<>>
    /\ positions = <<>>
    /\ current_pos = 0
    /\ t = 0
    /\ signals = <<>>
    /\ cost_bps = Num(0)
    /\ metrics = NoMetrics

NextKalman ==
    \/ process_data_begin
    \/ process_data_step
    \/ process_data_index_error
    \/ process_data_return

SpecKalman == InitKalman /\ [][NextKalman]_vars

-----------------------------------------------------------------------------
(* Claims about generate_signals *)

\* entry_threshold > 0 and exit_threshold < entry_threshold
ValidThresholds ==
    FGt(entry_threshold, Num(0)) /\ FLt(exit_threshold, entry_threshold)

\* C1: generate_signals starts in Flat and every recorded position[i] is the
\* row of the transition table selected by the state carried over from step
\* i-1 (Flat before the first step) and z[i]: Flat goes Long below -entry,
\* Short above entry, else stays; Long goes Flat at or above -exit, else
\* stays; Short goes Flat at or below exit, else stays.  The carried state is
\* the position just recorded, so one transition is applied per step.
C1_TransitionTable ==
    /\ (pc = "loop" /\ t = 0) => current_pos = 0
    /\ pc \in {"loop", "returned", "done"} =>
         /\ current_pos = (IF t = 0 THEN 0 ELSE positions[t])
         /\ \A i \in 1..t :
              LET prev == IF i = 1 THEN 0 ELSE positions[i - 1]
                  z == z_scores[i]
                  goLong == FLt(z, FNeg(entry_threshold))
                  goShort == FGt(z, entry_threshold)
                  exitLong == FGe(z, FNeg(exit_threshold))
                  exitShort == FLe(z, exit_threshold)
              IN positions[i] =
                   CASE prev = 0 /\ goLong -> 1
                     [] prev = 0 /\ ~goLong /\ goShort -> -1
                     [] prev = 0 /\ ~goLong /\ ~goShort -> 0
                     [] prev = 1 /\ exitLong -> 0
                     [] prev = 1 /\ ~exitLong -> 1
                     [] prev = -1 /\ exitShort -> 0
                     [] prev = -1 /\ ~exitShort -> -1

\* a finished run that entered Long, held it, and left it on z = -exit
C1_Witness ==
    /\ pc = "returned"
    /\ positions = <<1, 1, 0>>
    /\ z_scores[3] = FNeg(exit_threshold)

\* C2: under valid thresholds every entry of the positions array is -1, 0
\* or 1, at every point of the run.
C2_PositionRange ==
    ValidThresholds =>
        \A i \in 1..Len(positions) : positions[i] \in {-1, 0, 1}

\* a finished run under valid thresholds that was Long and Short
C2_Witness ==
    /\ pc = "returned"
    /\ ValidThresholds
    /\ \E i, j \in 1..Len(positions) : positions[i] = 1 /\ positions[j] = -1

\* C5: a row whose spread_variance is <= 0 never gets a z-score or a
\* position: the call stops with an error before emitting either.
C5_NumericError ==
    \A i \in 1..Len(kf_results) :
        FLe(kf_results[i].spread_var, Num(0)) =>
            /\ i > Len(z_scores)
            /\ ~(pc \in {"loop", "returned", "done"} /\ i <= t)

\* C3: with an entry threshold above every |z| of the run, the pipeline
\* (generate_signals, then run) ends with every position 0 and total_pnl = 0,
\* for every length n >= 1.
C3_UnreachableEntry ==
    (/\ pc = "done"
     /\ \A i \in 1..Len(z_scores) : FLt(FAbs(z_scores[i]), entry_threshold))
    => (/\ \A i \in 1..Len(positions) : positions[i] = 0
        /\ metrics.total_pnl = Num(0))

\* C11: positions never flip directly between Long and Short: consecutive
\* recorded positions differ by at most 1, so a Long or Short passes through
\* Flat even when z is beyond the opposite entry threshold; and when run is
\* fed these positions every defined trade indicator (every step after the
\* first) is 0 or 1, and no trade indicator is 2.
C11_NoDirectFlip ==
    /\ pc \in {"loop", "returned", "done"} =>
         \A i \in 2..t :
            /\ positions[i] - positions[i - 1] <= 1
            /\ positions[i - 1] - positions[i] <= 1
    /\ pc = "done" =>
         /\ \A i \in 2..Len(signals) :
               metrics.trades[i] \in {Num(0), Num(1)}
         /\ \A i \in 1..Len(signals) : metrics.trades[i] # Num(2)

\* a backtested run that was Long, saw z above the entry threshold, went
\* Flat for that step (one unit traded) and only then Short
C11_Witness ==
    /\ pc = "done"
    /\ positions = <<1, 0, -1>>
    /\ FGt(z_scores[2], entry_threshold)
    /\ metrics.trades[2] = Num(1)
    /\ metrics.trades[3] = Num(1)

\* every row has a positive spread_var, so every z is a finite number
PositiveVariances ==
    \A i \in 1..Len(kf_results) : FGt(kf_results[i].spread_var, Num(0))

\* C12 as stated: with exit_threshold >= entry_threshold a nonzero position
\* never persists over two consecutive steps: position[i] # 0 implies
\* position[i+1] = 0.  Stated here for frames with positive variances only,
\* the inputs the signal generator is specified for.
C12_ImmediateExit ==
    (/\ pc \in {"loop", "returned", "done"}
     /\ FGe(exit_threshold, entry_threshold)
     /\ PositiveVariances)
    => \A i \in 1..(t - 1) : positions[i] # 0 => positions[i + 1] = 0

\* C12 (amended): with exit_threshold >= entry_threshold a nonzero position
\* persists to the next step only if it is unchanged and z there is NaN or
\* strictly beyond the exit threshold on the position's side (z < -exit for
\* a Long, z > exit for a Short); in every other case it is closed at once.
\* So a nonzero position is recorded only at steps whose z is NaN or is
\* itself beyond the entry threshold on that side: nothing is held inside
\* the band.
C12_HeldOnlyBeyondBand ==
    (pc \in {"loop", "returned", "done"} /\ FGe(exit_threshold, entry_threshold))
    => /\ \A i \in 1..(t - 1) :
            (positions[i] # 0 /\ positions[i + 1] # 0) =>
                /\ positions[i + 1] = positions[i]
                /\ \/ IsNaN(z_scores[i + 1])
                   \/ (positions[i] = 1
                       /\ FLt(z_scores[i + 1], FNeg(exit_threshold)))
                   \/ (positions[i] = -1
                       /\ FGt(z_scores[i + 1], exit_threshold))
       /\ \A i \in 1..t :
            /\ positions[i] = 1 =>
                 (IsNaN(z_scores[i]) \/ FLt(z_scores[i], FNeg(entry_threshold)))
            /\ positions[i] = -1 =>
                 (IsNaN(z_scores[i]) \/ FGt(z_scores[i], entry_threshold))

\* a finished run with exit_threshold >= entry_threshold that held a Long
\* over two steps (z stayed below -exit) and closed it on a z inside the band
C12_Witness ==
    /\ pc = "returned"
    /\ FGe(exit_threshold, entry_threshold)
    /\ PositiveVariances
    /\ positions = <<1, 1, 0>>
    /\ FLt(z_scores[2], FNeg(exit_threshold))
    /\ FGe(z_scores[3], FNeg(exit_threshold))

-----------------------------------------------------------------------------
(* Claims about KalmanFilterReg.process_data *)

\* delta >= 0 and R > 0
ValidNoise == FGe(delta, Num(0)) /\ FGt(R, Num(0))

\* C4: under valid noise settings every process_data pass starts from mean 0
\* and covariance 1, whatever passes ran before on the object, and two passes
\* over the same aligned X and Y return the same beta, spread and spread_var.
C4_NoCrossRunState ==
    ValidNoise =>
        /\ \A i \in 1..Len(passes) :
             passes[i].start = [mean |-> Num(0), cov |-> Num(1)]
        /\ \A i, j \in 1..Len(passes) :
             (/\ passes[i].x = passes[j].x
              /\ passes[i].y = passes[j].y
              /\ Len(passes[i].x) = Len(passes[i].y))
             => passes[i].frame = passes[j].frame

\* C6: a process_data call with delta < 0, R <= 0 or X and Y of different
\* lengths ends in an error without running a filter step: no frame is
\* returned and state_mean and state_cov are what they were before the call.
C6_RejectsInvalidInput ==
    \A i \in 1..Len(passes) :
        (~ValidNoise \/ Len(passes[i].x) # Len(passes[i].y)) =>
            /\ passes[i].outcome # "returned"
            /\ passes[i].steps = 0
            /\ passes[i].end = passes[i].start
            /\ passes[i].frame = <<>>

-----------------------------------------------------------------------------
(* Claims about VectorizedBacktester.run *)

\* C7: the first step's net PnL is 0 and the equity curve is the running sum
\* of net at every step: equity[0] = 0, every equity[t] is a number,
\* equity[t] = equity[t-1] + net[t], and total_pnl is the last equity value.
C7_FirstStepZero ==
    pc = "bt_done" =>
        /\ metrics.net_pnl[1] = Num(0)
        /\ metrics.equity_curve[1] = Num(0)
        /\ \A i \in 1..Len(signals) : ~IsNaN(metrics.equity_curve[i])
        /\ \A i \in 2..Len(signals) :
             metrics.equity_curve[i] =
                 FAdd(metrics.equity_curve[i - 1], metrics.net_pnl[i])
        /\ metrics.total_pnl = metrics.equity_curve[Len(signals)]

\* C8: for every step after the first, the gross PnL is the previous step's
\* position times (dY - previous beta * dX): it is determined by position and
\* beta at the previous step and the prices of the previous and the current
\* step, so nothing of the current or a later step's position or beta enters.
C8_NoLookAhead ==
    pc = "bt_done" =>
        \A i \in 2..Len(signals) :
            metrics.strategy_pnl_daily[i] =
                FMul(signals[i - 1].position,
                     FSub(FSub(signals[i].y, signals[i - 1].y),
                          FMul(signals[i - 1].beta,
                               FSub(signals[i].x, signals[i - 1].x))))

\* a run where position and beta both change at the last step, after a step
\* with a non-zero gross PnL that the unlagged values would have changed
C8_Witness ==
    /\ pc = "bt_done"
    /\ Len(signals) = 3
    /\ signals[2].position # signals[3].position
    /\ signals[2].beta # signals[3].beta
    /\ metrics.strategy_pnl_daily[3] # Num(0)
    /\ metrics.strategy_pnl_daily[3] #
           FMul(signals[3].position,
                FSub(FSub(signals[3].y, signals[2].y),
                     FMul(signals[3].beta, FSub(signals[3].x, signals[2].x))))

\* C9: max_drawdown is a number <= 0, and it is 0 whenever the net PnL (the
\* undefined first step read as 0) is >= 0 at every step.
C9_DrawdownSign ==
    pc = "bt_done" =>
        /\ FLe(metrics.max_drawdown, Num(0))
        /\ (\A i \in 1..Len(signals) : FGe(fillna0(metrics.net_pnl)[i], Num(0)))
             => metrics.max_drawdown = Num(0)

\* C10: sharpe_ratio is the sentinel 0 whenever all elements of net (the
\* undefined first step read as 0) are identical, a single-element series
\* included.
C10_SharpeSentinel ==
    (/\ pc = "bt_done"
     /\ \A i, j \in 1..Len(signals) :
          fillna0(metrics.net_pnl)[i] = fillna0(metrics.net_pnl)[j])
    => metrics.sharpe_ratio = RootZero

====
